---- MODULE Spec2Model ----
(***************************************************************************)
(* PPO training core of robojax: gae_advantages, PPO.collect_buffer,       *)
(* BufferSampler.sample_random_batch, PPO.update_parameters,               *)
(* PPO.train_step and PPO.train.                                           *)
(*                                                                         *)
(* Conventions.                                                            *)
(*  - Arrays are 1-indexed sequences: index t of the model is index t-1 of *)
(*    the code.  A [time, env] array is a sequence of rows, M[t][e].       *)
(*  - Floats are fixed-point integers in units of 1/One; gamma and         *)
(*    gae_lambda are plain integer factors.                                *)
(*  - A PRNG key is its derivation path from the root key: split(k, n)[i]  *)
(*    is Append(k, i).                                                     *)
(***************************************************************************)
EXTENDS Integers, Sequences, FiniteSets, TLC

\* ------------------------------------------------------------------ bounds
MaxSteps == 3
MaxEnvs == 2
MaxCells == 4
One == 10

\* ------------------------------------------------------------- input sets
RewardVals == {0, One}
ValueVals == {0, One}
\* <<gamma, gae_lambda>>
GammaLambda == {<<1, 1>>, <<2, 3>>}
\* <<rollout_steps_per_env, num_envs>>
Shapes ==
  {s \in (1..MaxSteps) \X (1..MaxEnvs) : s[1] * s[2] <= MaxCells}
Matrix(rows, cols, S) == [1..rows -> [1..cols -> S]]

VARIABLES
  pc,        \* position of the driver of the specification in force
  gaeArgs,   \* arguments of a call of gae_advantages
  gaeRet,    \* what that call returned
  cfg,       \* self.cfg, the PPOConfig
  args,      \* the arguments of PPO.train
  env,       \* what the environment and the networks answer in a rollout
  rolled,    \* the buffer as self.loop.rollout returned it
  buffer,    \* the buffer collect_buffer returned
  rng_key,   \* train's rng_key
  ac,        \* ac.actor and ac.critic
  t_epoch,   \* train's loop variable t: the epoch
  carry,     \* the carry of the scan in update_parameters
  i_step,    \* the inner steps that scan has run
  batch,     \* the minibatch of the last inner step, with its indices
  info,      \* the episode statistics train computed last
  keysSplit, \* the keys given to jax.random.split so far
  keysDrawn, \* the keys consumed by a random draw so far, in order
  collectLog, \* one entry per rollout collected
  updateLog, \* one entry per inner step run
  envCalls,  \* how many times the environment was stepped
  twin       \* a second run of train on the same arguments, step for step

progVars ==
  <<rng_key, ac, t_epoch, carry, i_step, batch, info, keysSplit, keysDrawn, collectLog,
    updateLog, envCalls, twin>>
vars == <<pc, gaeArgs, gaeRet, cfg, args, env, rolled, buffer, progVars>>

None == "None"

\* --------------------------------------------------------------- helpers
Reverse(s) == [i \in 1..Len(s) |-> s[Len(s) + 1 - i]]
Column(M, e) == [t \in 1..Len(M) |-> M[t][e]]
NumCols(M) == IF Len(M) = 0 THEN 0 ELSE Len(M[1])

\* ------------------------------------------------------- gae_advantages
not_dones(dones) == [t \in 1..Len(dones) |-> IF dones[t] THEN 0 ELSE 1]

value_diffs_unshifted(nd, values, gamma) ==
  [t \in 1..Len(nd) |-> gamma * values[t] * nd[t] - values[t]]

\* gamma * values[1:] * not_dones - values[:-1]
value_diffs(nd, values, gamma) ==
  [t \in 1..Len(nd) |-> gamma * values[t + 1] * nd[t] - values[t]]

\* rewards + value_diffs
deltas(rewards, vd) == [t \in 1..Len(rewards) |-> rewards[t] + vd[t]]

body_fun_unmasked(gae, t, dlt, nd, gamma, gae_lambda) ==
  dlt[t] + gamma * gae_lambda * gae

\* the new carry, which is also the value the scan emits for index t
body_fun(gae, t, dlt, nd, gamma, gae_lambda) ==
  dlt[t] + gamma * gae_lambda * nd[t] * gae

indices_forward(N) == [i \in 1..N |-> i]

\* jnp.arange(N)[::-1]
indices(N) == [i \in 1..N |-> N + 1 - i]

\* jax.lax.scan(body_fun, gae, idx): the emitted values, in scan order
RECURSIVE scan(_, _, _, _, _, _)
scan(gae, idx, dlt, nd, gamma, gae_lambda) ==
  IF idx = <<>> THEN <<>>
  ELSE LET g == body_fun(gae, Head(idx), dlt, nd, gamma, gae_lambda)
       IN  <<g>> \o scan(g, Tail(idx), dlt, nd, gamma, gae_lambda)

\* out_axes=1: the per-environment results, laid out as [time, env]
OutAxis1(cols, N) == [t \in 1..N |-> [e \in 1..Len(cols) |-> cols[e][t]]]

\* the function under jax.vmap: one environment column
gae_column(rewards, dones, values, gamma, gae_lambda) ==
  Reverse(scan(0, indices(Len(rewards)),
               deltas(rewards, value_diffs(not_dones(dones), values, gamma)),
               not_dones(dones), gamma, gae_lambda))

\* jax.vmap(in_axes=(1, 1, 1, None, None), out_axes=1)
gae_advantages(rewards, dones, values, gamma, gae_lambda) ==
  OutAxis1([e \in 1..NumCols(rewards) |->
              gae_column(Column(rewards, e), Column(dones, e),
                         Column(values, e), gamma, gae_lambda)],
           Len(rewards))

\* ------------------------------------------------------------- PRNG keys
\* jax.random.split(key, num): the num children of key
split(key, num) == [j \in 1..num |-> Append(key, j - 1)]

\* ------------------------------------------------------------ the rollout
Fields ==
  {"log_p", "action", "env_obs", "adv", "reward", "ret", "value", "done",
   "ep_len"}

\* no buffer yet, no batch yet
NoBuffer == [f \in Fields |-> <<>>]
NoBatch == [batch_ids |-> <<>>, env_ids |-> <<>>, data |-> NoBuffer]

\* PPO.__init__.rollout_callback: one (time, env) cell of the buffer
rollout_callback(action, env_obs, reward, ep_ret, ep_len, done, aux) ==
  [action |-> action, env_obs |-> env_obs, reward |-> reward, adv |-> 0,
   log_p |-> aux.log_p, ret |-> ep_ret, value |-> aux.value, done |-> done,
   ep_len |-> ep_len]

\* apply_fn_wrapped -> apply_fn -> ac.step: the action of the actor and the
\* value of the critic on one observation (v is what the critic computes)
apply_fn_wrapped(actor, critic, obs, v) ==
  [action |-> <<"action", actor, obs>>,
   aux |-> [log_p |-> <<"log_p", actor, obs>>, value |-> v]]

\* the running return and length of the episode that step t belongs to
RECURSIVE ep_ret_at(_, _, _)
ep_ret_at(e_, t, e) ==
  e_.reward[t][e]
    + (IF t = 1 \/ e_.done[t - 1][e] THEN 0 ELSE ep_ret_at(e_, t - 1, e))

RECURSIVE ep_len_at(_, _, _)
ep_len_at(e_, t, e) ==
  1 + (IF t = 1 \/ e_.done[t - 1][e] THEN 0 ELSE ep_len_at(e_, t - 1, e))

\* self.loop.rollout(env_rng_keys, apply_fn, steps): the callback's cell for
\* every step of every environment
\* the cells, stacked into [time, env] arrays, one per TimeStep field
Stack(cells) ==
  [f \in Fields |->
     [t \in 1..Len(cells) |-> [e \in 1..Len(cells[t]) |-> cells[t][e][f]]]]

rollout(env_rng_keys, actor, critic, steps, e_) ==
  LET cell(t, e) ==
        LET obs == <<"obs", env_rng_keys[e], t>>
            res == apply_fn_wrapped(actor, critic, obs, e_.value[t][e])
        IN  rollout_callback(res.action, obs, e_.reward[t][e],
                             ep_ret_at(e_, t, e), ep_len_at(e_, t, e),
                             e_.done[t][e], res.aux)
  IN  Stack([t \in 1..steps |-> [e \in 1..Len(env_rng_keys) |-> cell(t, e)]])

\* --------------------------------------------------------- collect_buffer
\* x[:-1] and x[-1]
AllButLast(x) == SubSeq(x, 1, Len(x) - 1)
Last(x) == x[Len(x)]

RECURSIVE SumSeq(_)
SumSeq(x) == IF x = <<>> THEN 0 ELSE Head(x) + SumSeq(Tail(x))

\* Newton's iteration for the integer square root, from above
RECURSIVE SqrtFrom(_, _)
SqrtFrom(x, r) ==
  LET n == (r + (x \div r)) \div 2
  IN  IF n >= r THEN r ELSE SqrtFrom(x, n)

FixSqrt(x) == IF x = 0 THEN 0 ELSE SqrtFrom(x, x)

Flat(M) ==
  LET E == NumCols(M)
  IN  [k \in 1..(Len(M) * E) |-> M[((k - 1) \div E) + 1][((k - 1) % E) + 1]]

\* advantages.mean() and advantages.std(), over all (time, env) cells
MeanOf(flat) == SumSeq(flat) \div Len(flat)
Mean(M) == MeanOf(Flat(M))
VarOf(flat, m) ==
  SumSeq([k \in 1..Len(flat) |-> (flat[k] - m) * (flat[k] - m)]) \div Len(flat)
Std(M) == FixSqrt(VarOf(Flat(M), Mean(M)))

\* 1 / 1e-8
EpsInv == 100000000

\* x / (sd + 1e-8): 1e-8 is below the resolution and counts when sd = 0
FixDiv(x, sd) ==
  IF sd = 0 THEN x * EpsInv
  ELSE IF x >= 0 THEN (x * One) \div sd ELSE -(((-x) * One) \div sd)

\* (advantages - advantages.mean()) / (advantages.std() + 1e-8)
Standardize(advantages, m, sd) ==
  [t \in 1..Len(advantages) |-> [e \in 1..NumCols(advantages) |->
     FixDiv(advantages[t][e] - m, sd)]]

normalize_advantages(advantages) ==
  Standardize(advantages, Mean(advantages), Std(advantages))

returns_of_own_value(advantages, value) ==
  [t \in 1..Len(advantages) |-> [e \in 1..NumCols(advantages) |->
     advantages[t][e] + value[t][e]]]

returns_of_first_env(advantages, value) ==
  [t \in 1..Len(advantages) |-> [e \in 1..NumCols(advantages) |->
     advantages[t][e] + Last(value)[1]]]

\* advantages + buffer.value[-1, :]
returns_of(advantages, value) ==
  [t \in 1..Len(advantages) |-> [e \in 1..NumCols(advantages) |->
     advantages[t][e] + Last(value)[e]]]

\* buffer.replace(adv=..., ret=..., log_p=buffer.log_p[:-1], ...)
replace(b, advantages, returns) ==
  [b EXCEPT !.adv = advantages, !.ret = returns,
            !.log_p = AllButLast(b.log_p), !.action = AllButLast(b.action),
            !.env_obs = AllButLast(b.env_obs), !.done = AllButLast(b.done),
            !.ep_len = AllButLast(b.ep_len)]

\* rng_key, *env_rng_keys = jax.random.split(rng_key, num_envs + 1)
env_rng_keys_of(key, num_envs) == Tail(split(key, num_envs + 1))

rollout_length(rollout_steps_per_env) == rollout_steps_per_env + 1

\* what self.loop.rollout returns to collect_buffer
collect_rollout(key, rollout_steps_per_env, num_envs, actor, critic, e_) ==
  rollout(env_rng_keys_of(key, num_envs), actor, critic,
          rollout_length(rollout_steps_per_env), e_)

\* collect_buffer, from the rollout's buffer on
\* returns = advantages + buffer.value[-1, :], then buffer.replace
with_returns(b, advantages) ==
  replace(b, advantages, returns_of(advantages, b.value))

\* if self.cfg.normalize_advantage: ..., and what follows it
finish_buffer(c_, b, advantages) ==
  with_returns(b, IF c_.normalize_advantage
                  THEN normalize_advantages(advantages) ELSE advantages)

collect_buffer(c_, b) ==
  finish_buffer(c_, b,
                gae_advantages(AllButLast(b.reward), AllButLast(b.done),
                               b.value, c_.gamma, c_.gae_lambda))

\* ---------------------------------------------------------- BufferSampler
buffer_size_of_value(b) == Len(b.value)

\* BufferSampler(buffer, buffer_size=buffer.action.shape[0], num_envs=num_envs)
buffer_size_of(b) == Len(b.action)

BufferSampler(b, num_envs) ==
  [buffer |-> b, buffer_size |-> buffer_size_of(b), num_envs |-> num_envs]

\* what jax.random.randint(key, shape=(n,), minval, maxval) can return
randint(n, minval, maxval) == [1..n -> minval..(maxval - 1)]

\* the keys sample_random_batch derives from its rng_key and draws with
sample_keys(key) ==
  [batch_ids_rng_key |-> split(key, 2)[2],
   env_ids_rng_key |-> split(split(key, 2)[1], 2)[2],
   split |-> {key, split(key, 2)[1]}]

\* an index into an axis of the given size, as a gather clamps it
Clip(idx, size) == IF idx > size - 1 THEN size - 1 ELSE idx

\* getattr(self.buffer, field.name)[batch_ids, env_ids]
Gather(field, batch_ids, env_ids) ==
  [k \in 1..Len(batch_ids) |->
     field[Clip(batch_ids[k], Len(field)) + 1]
          [Clip(env_ids[k], NumCols(field)) + 1]]

get_batch_by_ids(sampler, batch_ids, env_ids) ==
  [f \in Fields |-> Gather(sampler.buffer[f], batch_ids, env_ids)]

\* ------------------------------------------------------ update_parameters
Model(net, step) == [net |-> net, step |-> step]

\* actor.apply_gradients(grads=grads): the model after one more step of its
\* optimizer
apply_gradients(model, grads) == [model EXCEPT !.step = @ + 1]

\* grads_a_fn(actor.params) and grads_c_fn(critic.params)
grads_of(loss, clip_ratio, model, b) ==
  [loss |-> loss, clip_ratio |-> clip_ratio, params |-> model]

scan_continues_once_more(k, length) == k <= length

\* jax.lax.scan(update_step_fn, update_init, (), length=update_iters)
scan_continues(k, length) == k < length

next_carry_old_models(data, key, new_actor, new_critic) ==
  [rng_key |-> key, actor |-> data.actor, critic |-> data.critic]

next_carry_old_key(data, key, new_actor, new_critic) ==
  [rng_key |-> data.rng_key, actor |-> new_actor, critic |-> new_critic]

\* return (rng_key, new_actor, new_critic), ...
next_carry(data, key, new_actor, new_critic) ==
  [rng_key |-> key, actor |-> new_actor, critic |-> new_critic]

\* update_step_fn on the batch drawn at batch_ids, env_ids
update_step_fn(data, sampler, c_, batch_ids, env_ids) ==
  next_carry(
    data, split(data.rng_key, 2)[1],
    apply_gradients(
      data.actor,
      grads_of("actor_loss_fn", c_.clip_ratio, data.actor,
               get_batch_by_ids(sampler, batch_ids, env_ids))),
    apply_gradients(
      data.critic,
      grads_of("critic_loss_fn", None, data.critic,
               get_batch_by_ids(sampler, batch_ids, env_ids))))

\* ------------------------------------------------------------------ train
\* for t in range(epochs)
range_continues(k, epochs) == k < epochs

\* the keys one epoch derives: train (line 130), train_step (line 167)
epoch_keys(key) ==
  [rng_key |-> split(key, 2)[1],
   train_rng_key |-> split(key, 2)[2],
   update_rng_key |-> split(split(key, 2)[2], 2)[1],
   buffer_rng_key |-> split(split(key, 2)[2], 2)[2]]

train_step_buffer_kept(previous, collected) ==
  IF previous = NoBuffer THEN collected ELSE previous

\* buffer, info = self.collect_buffer(...): the buffer train_step goes on
\* with is the one just collected, whatever the previous epoch's was
train_step_buffer(previous, collected) == collected

\* x[mask], flattened
RECURSIVE Masked(_, _)
Masked(x, mask) ==
  IF x = <<>> THEN <<>>
  ELSE (IF Head(mask) THEN <<Head(x)>> ELSE <<>>)
         \o Masked(Tail(x), Tail(mask))

\* .mean() of numbers in units of 1/unit; of nothing, it is nan
mean(x, unit) ==
  IF x = <<>> THEN "nan" ELSE (SumSeq(x) * (One \div unit)) \div Len(x)

\* info = dict(ep_lens=..., ep_rets=...)
episode_info(b) ==
  [ep_lens |-> mean(Masked(Flat(b.ep_len), Flat(b.done)), 1),
   ep_rets |-> mean(Masked(Flat(b.ret), Flat(b.done)), One)]

\* train is not running
NoProgram ==
  /\ rng_key = None /\ ac = None /\ t_epoch = 0 /\ carry = None
  /\ i_step = 0
  /\ batch = NoBatch /\ info = None /\ keysSplit = {} /\ keysDrawn = <<>>
  /\ collectLog = <<>> /\ updateLog = <<>> /\ envCalls = 0
  /\ twin = None

\* ------------------------------------------- specification of the estimator
GaeInputs ==
  UNION {[rewards : Matrix(s[1], s[2], RewardVals),
          dones : Matrix(s[1], s[2], BOOLEAN),
          values : Matrix(s[1] + 1, s[2], ValueVals),
          gamma : {gl[1]}, gae_lambda : {gl[2]}] :
         s \in Shapes, gl \in GammaLambda}

InitGae ==
  /\ pc = "gae_args"
  /\ gaeArgs \in GaeInputs
  /\ gaeRet = <<>>
  /\ cfg = None /\ args = None /\ env = None
  /\ rolled = NoBuffer /\ buffer = NoBuffer
  /\ NoProgram

GaeCall ==
  /\ pc = "gae_args"
  /\ gaeRet' = gae_advantages(gaeArgs.rewards, gaeArgs.dones, gaeArgs.values,
                              gaeArgs.gamma, gaeArgs.gae_lambda)
  /\ pc' = "gae_returned"
  /\ UNCHANGED <<gaeArgs, cfg, args, env, rolled, buffer, progVars>>

NextGae == GaeCall

SpecGae == InitGae /\ [][NextGae]_vars

\* ------------------------------------------- specification of collect_buffer
\* what the environment and the critic answer at the cells of a rollout of
\* N + 1 steps of E environments
EnvTables(N, E) ==
  {[reward |-> Append(r, [e \in 1..E |-> l[1]]),
    done |-> Append(d, [e \in 1..E |-> l[2]]),
    value |-> v] :
   r \in Matrix(N, E, RewardVals), d \in Matrix(N, E, BOOLEAN),
   v \in Matrix(N + 1, E, ValueVals), l \in {<<0, FALSE>>, <<One, TRUE>>}}

\* 0.2 in fixed point
DefaultClip == 2

BufferConfigs ==
  {[normalize_advantage |-> n, gamma |-> gl[1], gae_lambda |-> gl[2],
    clip_ratio |-> DefaultClip] : n \in BOOLEAN, gl \in GammaLambda}

InitBuffer ==
  /\ pc = "collect_args"
  /\ cfg \in BufferConfigs
  /\ \E s \in Shapes :
       /\ args = [steps_per_epoch |-> s[1], num_envs |-> s[2]]
       /\ env \in EnvTables(s[1], s[2])
  /\ rolled = NoBuffer /\ buffer = NoBuffer
  /\ gaeArgs = None /\ gaeRet = None
  /\ NoProgram

CollectBufferCall ==
  /\ pc = "collect_args"
  /\ LET b == collect_rollout(<<0>>, args.steps_per_epoch, args.num_envs,
                              Model("actor", 0), Model("critic", 0), env)
     IN  /\ rolled' = b
         /\ buffer' = collect_buffer(cfg, b)
  /\ pc' = "collect_returned"
  /\ UNCHANGED <<gaeArgs, gaeRet, cfg, args, env, progVars>>

NextBuffer == CollectBufferCall

SpecBuffer == InitBuffer /\ [][NextBuffer]_vars

\* ----------------------------------------------------- specification of train
MaxEpochs == 2
MaxIters == 2
MaxBatch == 2

\* two environments to train on: what they and the critic answer at the
\* cells of a rollout of N + 1 steps of E environments
TrainEnvs(N, E) ==
  {[reward |-> [k \in 1..(N + 1) |-> [e \in 1..E |-> One * ((k + e + b) % 2)]],
    done |-> [k \in 1..(N + 1) |-> [e \in 1..E |-> (k + e * b) % 2 = 0]],
    value |-> [k \in 1..(N + 1) |-> [e \in 1..E |-> One * ((k * e + b) % 2)]]] :
   b \in {0, 1}}

\* a configuration with the default clip_ratio, and one with a clip_ratio
\* that is not positive
TrainConfigs ==
  {[normalize_advantage |-> TRUE, gamma |-> 1, gae_lambda |-> 1,
    clip_ratio |-> DefaultClip],
   [normalize_advantage |-> FALSE, gamma |-> 2, gae_lambda |-> 3,
    clip_ratio |-> 0]}

InitialAc == [actor |-> Model("actor", 0), critic |-> Model("critic", 0)]
RootKey == <<0>>

\* ------------------------------------------------------------ a second run
\* the state of the process that is no argument of train (a global random
\* state, the clock): it differs from one run to the other
Ambient(run) == <<"ambient", run>>

seed_of_ambient(key, ambient) == ambient

\* jax.random.randint(batch_ids_rng_key, ...), jax.random.split(rng_key, ...):
\* what a draw is seeded with is the key it is given, nothing else
seed_of(key, ambient) == key

\* what decides the answers of a rollout: the seeds of the environments and
\* the actor and critic applied
rollout_inputs(key, num_envs, actor, critic, run) ==
  [seeds |-> [e \in 1..num_envs |->
                seed_of(env_rng_keys_of(key, num_envs)[e], Ambient(run))],
   actor |-> actor, critic |-> critic]

\* the answers the second run can get where the first got e_: the
\* environment, the loop and the networks are functions of their inputs
SecondEnv(N, E, inputs, inputs2, e_) ==
  {e2 \in TrainEnvs(N, E) : inputs = inputs2 => e2 = e_}

\* what the second run can draw where the first drew v: randint is a
\* function of its seed, shape and bounds
SecondDraw(n, maxval, maxval2, key, key2, v) ==
  {v2 \in randint(n, 0, maxval2) :
     (seed_of(key, Ambient(1)) = seed_of(key2, Ambient(2)) /\ maxval = maxval2)
       => v2 = v}

\* the second run, started like the first
InitialTwin ==
  [rng_key |-> RootKey, ac |-> InitialAc, carry |-> None, buffer |-> NoBuffer,
   batch |-> NoBatch]

\* the steps of train, on the state of the second run
SecondCollect(tw, c_, a, e2) ==
  [tw EXCEPT
     !.rng_key = epoch_keys(tw.rng_key).rng_key,
     !.buffer =
       train_step_buffer(
         tw.buffer,
         collect_buffer(c_, collect_rollout(epoch_keys(tw.rng_key).buffer_rng_key,
                                            a.steps_per_epoch, a.num_envs,
                                            tw.ac.actor, tw.ac.critic, e2))),
     !.carry = [rng_key |-> epoch_keys(tw.rng_key).update_rng_key,
                actor |-> tw.ac.actor, critic |-> tw.ac.critic]]

SecondUpdateStep(tw, c_, a, batch_ids, env_ids) ==
  [tw EXCEPT
     !.batch = [batch_ids |-> batch_ids, env_ids |-> env_ids,
                data |-> get_batch_by_ids(BufferSampler(tw.buffer, a.num_envs),
                                          batch_ids, env_ids)],
     !.carry = update_step_fn(tw.carry, BufferSampler(tw.buffer, a.num_envs),
                              c_, batch_ids, env_ids)]

SecondEpochEnd(tw) ==
  [tw EXCEPT !.ac = [actor |-> tw.carry.actor, critic |-> tw.carry.critic],
             !.batch = NoBatch]

Init ==
  /\ pc = "epoch"
  /\ cfg \in TrainConfigs
  /\ \E s \in Shapes, u \in {1, MaxIters}, n \in {1, MaxEpochs},
        b \in 1..MaxBatch :
       args = [update_iters |-> u, steps_per_epoch |-> s[1],
               num_envs |-> s[2], epochs |-> n, batch_size |-> b]
  /\ rng_key = RootKey
  /\ ac = InitialAc
  /\ t_epoch = 0 /\ carry = None /\ i_step = 0
  /\ env = None /\ rolled = NoBuffer /\ buffer = NoBuffer /\ batch = NoBatch
  /\ info = None
  /\ keysSplit = {} /\ keysDrawn = <<>>
  /\ collectLog = <<>> /\ updateLog = <<>> /\ envCalls = 0
  /\ gaeArgs = None /\ gaeRet = None
  /\ twin = InitialTwin

Draw(use, key) == [use |-> use, key |-> key]

\* train, from the head of its loop to the start of the scan of
\* update_parameters: the key splits, collect_buffer, update_init
Collect ==
  /\ pc = "epoch"
  /\ range_continues(t_epoch, args.epochs)
  /\ \E e_ \in TrainEnvs(args.steps_per_epoch, args.num_envs) :
       LET ks == epoch_keys(rng_key)
           b == collect_rollout(ks.buffer_rng_key, args.steps_per_epoch,
                                args.num_envs, ac.actor, ac.critic, e_)
       IN  /\ rng_key' = ks.rng_key
           /\ env' = e_
           /\ rolled' = b
           /\ buffer' = train_step_buffer(buffer, collect_buffer(cfg, b))
           /\ carry' = [rng_key |-> ks.update_rng_key, actor |-> ac.actor,
                        critic |-> ac.critic]
           /\ keysSplit' = keysSplit
                             \cup {rng_key, ks.train_rng_key, ks.buffer_rng_key}
           /\ keysDrawn' =
                keysDrawn
                  \o [e \in 1..args.num_envs |->
                        Draw("env", env_rng_keys_of(ks.buffer_rng_key,
                                                    args.num_envs)[e])]
           /\ collectLog' =
                Append(collectLog,
                       [epoch |-> t_epoch, actor |-> ac.actor,
                        critic |-> ac.critic, updates |-> Len(updateLog)])
           /\ envCalls' = envCalls + Len(b.reward) * args.num_envs
           /\ \E e2 \in SecondEnv(
                          args.steps_per_epoch, args.num_envs,
                          rollout_inputs(ks.buffer_rng_key, args.num_envs,
                                         ac.actor, ac.critic, 1),
                          rollout_inputs(epoch_keys(twin.rng_key).buffer_rng_key,
                                         args.num_envs, twin.ac.actor,
                                         twin.ac.critic, 2),
                          e_) :
                twin' = SecondCollect(twin, cfg, args, e2)
  /\ i_step' = 0
  /\ pc' = "update"
  /\ UNCHANGED <<gaeArgs, gaeRet, cfg, args, ac, t_epoch, batch, info,
                 updateLog>>

\* one iteration of the scan: update_step_fn, where the two draws of
\* sample_random_batch come out as batch_ids and env_ids
UpdateStepAt(batch_ids, env_ids) ==
  /\ pc = "update"
  /\ scan_continues(i_step, args.update_iters)
  /\ LET sampler == BufferSampler(buffer, args.num_envs)
         sk == sample_keys(split(carry.rng_key, 2)[2])
     IN  /\ batch_ids \in randint(args.batch_size, 0, sampler.buffer_size)
         /\ env_ids \in randint(args.batch_size, 0, sampler.num_envs)
         /\ batch' = [batch_ids |-> batch_ids, env_ids |-> env_ids,
                      data |-> get_batch_by_ids(sampler, batch_ids, env_ids)]
         /\ carry' = update_step_fn(carry, sampler, cfg, batch_ids, env_ids)
         /\ keysSplit' = keysSplit \cup {carry.rng_key} \cup sk.split
         /\ keysDrawn' = keysDrawn \o <<Draw("batch_ids", sk.batch_ids_rng_key),
                                        Draw("env_ids", sk.env_ids_rng_key)>>
         /\ \E batch_ids2 \in
                 SecondDraw(args.batch_size, sampler.buffer_size,
                            buffer_size_of(twin.buffer), sk.batch_ids_rng_key,
                            sample_keys(split(twin.carry.rng_key, 2)[2])
                              .batch_ids_rng_key,
                            batch_ids),
               env_ids2 \in
                 SecondDraw(args.batch_size, sampler.num_envs, args.num_envs,
                            sk.env_ids_rng_key,
                            sample_keys(split(twin.carry.rng_key, 2)[2])
                              .env_ids_rng_key,
                            env_ids) :
              twin' = SecondUpdateStep(twin, cfg, args, batch_ids2, env_ids2)
  /\ updateLog' =
       Append(updateLog,
              [epoch |-> t_epoch, step |-> i_step, used |-> carry,
               made |-> carry', collects |-> Len(collectLog)])
  /\ i_step' = i_step + 1
  /\ UNCHANGED <<pc, gaeArgs, gaeRet, cfg, args, env, rolled, buffer, rng_key,
                 ac, t_epoch, info, collectLog, envCalls>>

UpdateStep ==
  /\ pc = "update"
  /\ \E batch_ids \in randint(args.batch_size, 0, buffer_size_of(buffer)),
        env_ids \in randint(args.batch_size, 0, args.num_envs) :
       UpdateStepAt(batch_ids, env_ids)

\* the scan is over: update_parameters and train_step return, train stores
\* the models and computes the episode statistics
EpochEnd ==
  /\ pc = "update"
  /\ ~scan_continues(i_step, args.update_iters)
  /\ ac' = [actor |-> carry.actor, critic |-> carry.critic]
  /\ info' = episode_info(buffer)
  /\ t_epoch' = t_epoch + 1
  /\ batch' = NoBatch
  /\ twin' = SecondEpochEnd(twin)
  /\ pc' = "epoch"
  /\ UNCHANGED <<gaeArgs, gaeRet, cfg, args, env, rolled, buffer, rng_key,
                 carry, i_step, keysSplit, keysDrawn, collectLog, updateLog,
                 envCalls>>

\* the loop of train is over
Return ==
  /\ pc = "epoch"
  /\ ~range_continues(t_epoch, args.epochs)
  /\ pc' = "done"
  /\ UNCHANGED <<gaeArgs, gaeRet, cfg, args, env, rolled, buffer, progVars>>

Next == Collect \/ UpdateStep \/ EpochEnd \/ Return

Spec == Init /\ [][Next]_vars

\* ------------------------------------------------------------ claims: GAE
Returned == pc = "gae_returned"

\* the backward recursion of one environment column, gae[N + 1] = 0
RECURSIVE RefGae(_, _, _, _, _, _)
RefGae(rewards, dones, values, gamma, lam, t) ==
  IF t > Len(rewards) THEN 0
  ELSE LET not_done == IF dones[t] THEN 0 ELSE 1
           delta == rewards[t] + gamma * values[t + 1] * not_done - values[t]
       IN  delta + gamma * lam * not_done
                   * RefGae(rewards, dones, values, gamma, lam, t + 1)

\* C1: for every environment column e, gae_advantages returns, in forward
\* time order, the reference backward recursion applied to column e alone.
C1_GaeIsReferenceRecursion ==
  Returned =>
    /\ Len(gaeRet) = Len(gaeArgs.rewards)
    /\ \A t \in 1..Len(gaeArgs.rewards) :
         /\ DOMAIN gaeRet[t] = 1..NumCols(gaeArgs.rewards)
         /\ \A e \in 1..NumCols(gaeArgs.rewards) :
              gaeRet[t][e] =
                RefGae(Column(gaeArgs.rewards, e), Column(gaeArgs.dones, e),
                       Column(gaeArgs.values, e), gaeArgs.gamma,
                       gaeArgs.gae_lambda, t)

\* two columns and two steps whose advantages all differ, one step done
C1_Witness ==
  /\ Returned
  /\ Len(gaeRet) >= 2 /\ NumCols(gaeArgs.rewards) >= 2
  /\ gaeRet[1][1] # gaeRet[1][2]
  /\ gaeRet[1][1] # gaeRet[2][1]
  /\ gaeArgs.dones[1][1] /\ ~gaeArgs.dones[1][2]

\* the arguments with rewards[t+1:] and values[t+1:] of column e replaced
PerturbedAfter(a, e, t) ==
  LET N == Len(a.rewards)
      E == NumCols(a.rewards)
  IN  {[a EXCEPT
          !.rewards = [s \in 1..N |-> [c \in 1..E |->
                         IF c = e /\ s > t THEN rs[s] ELSE a.rewards[s][c]]],
          !.values = [s \in 1..(N + 1) |-> [c \in 1..E |->
                         IF c = e /\ s > t THEN vs[s] ELSE a.values[s][c]]]] :
       rs \in [(t + 1)..N -> RewardVals],
       vs \in [(t + 1)..(N + 1) -> ValueVals]}

GaeOf(a) ==
  gae_advantages(a.rewards, a.dones, a.values, a.gamma, a.gae_lambda)

\* C2: where dones[t] holds, advantages[s] for s <= t are the same whatever
\* rewards[t+1:] and values[t+1:] (the bootstrap value included) are.
C2_DoneBoundary ==
  Returned =>
    \A e \in 1..NumCols(gaeArgs.rewards) :
      \A t \in 1..Len(gaeArgs.rewards) :
        gaeArgs.dones[t][e] =>
          \A p \in PerturbedAfter(gaeArgs, e, t) :
            \A s \in 1..t : GaeOf(p)[s][e] = gaeRet[s][e]

\* a done step before the last one, and a replacement of what follows it
\* that changes the advantage right after the boundary
C2_Witness ==
  /\ Returned
  /\ \E e \in 1..NumCols(gaeArgs.rewards) :
       \E t \in 1..(Len(gaeArgs.rewards) - 1) :
         /\ gaeArgs.dones[t][e]
         /\ \E p \in PerturbedAfter(gaeArgs, e, t) :
              GaeOf(p)[t + 1][e] # gaeRet[t + 1][e]

\* --------------------------------------------------- claims: collect_buffer
Collected == pc = "collect_returned"

\* the reference recursion on the arguments collect_buffer passes
RefAdvantages(b, c_) ==
  [k \in 1..(Len(b.value) - 1) |-> [e \in 1..NumCols(b.value) |->
     RefGae(AllButLast(Column(b.reward, e)), AllButLast(Column(b.done, e)),
            Column(b.value, e), c_.gamma, c_.gae_lambda, k)]]

\* C3: in the buffer collect_buffer returns, ret[t, e] = adv[t, e] +
\* value[N, e] for every step t < N and environment e, adv being the raw
\* advantage without normalize_advantage and the normalized one with it.
C3_ReturnIdentity ==
  Collected =>
    LET N == args.steps_per_epoch
    IN  /\ Len(buffer.ret) = N /\ Len(buffer.adv) = N
        /\ buffer.adv = IF cfg.normalize_advantage
                        THEN normalize_advantages(RefAdvantages(rolled, cfg))
                        ELSE RefAdvantages(rolled, cfg)
        /\ \A k \in 1..N : \A e \in 1..args.num_envs :
             buffer.ret[k][e] = buffer.adv[k][e] + buffer.value[N + 1][e]

\* normalized advantages, two environments with different bootstrap values,
\* and a bootstrap value that is not the value of the step
C3_Witness ==
  /\ Collected
  /\ cfg.normalize_advantage
  /\ args.num_envs >= 2 /\ args.steps_per_epoch >= 2
  /\ Last(buffer.value)[1] # Last(buffer.value)[2]
  /\ buffer.value[1][1] # Last(buffer.value)[1]
  /\ buffer.adv[1][1] # RefAdvantages(rolled, cfg)[1][1]
  /\ buffer.adv[1][1] # 0

\* C4: the rollout has rollout_steps_per_env + 1 steps, and in the buffer
\* returned every field but value has rollout_steps_per_env steps, value
\* having one more.
C4_AllFieldsButValueTrimmed ==
  Collected =>
    LET N == args.steps_per_epoch
    IN  /\ \A f \in Fields : Len(rolled[f]) = N + 1
        /\ \A f \in Fields \ {"value"} : Len(buffer[f]) = N
        /\ Len(buffer.value) = N + 1

\* -------------------------------------------------------- claims: training
\* C5: a batch is the buffer gathered at batch_size pairs (t_i, e_i), the
\* same pair for every field of row i, each pair within the bounds of every
\* field; and every sequence of pairs with t_i < buffer_size, e_i < num_envs
\* can be the one drawn.
C5_BatchIsGatheredAtPairs ==
  /\ batch # NoBatch =>
       /\ Len(batch.batch_ids) = args.batch_size
       /\ Len(batch.env_ids) = args.batch_size
       /\ \A k \in 1..args.batch_size : \A f \in Fields :
            /\ batch.batch_ids[k] \in 0..(Len(buffer[f]) - 1)
            /\ batch.env_ids[k] \in 0..(NumCols(buffer[f]) - 1)
            /\ Len(batch.data[f]) = args.batch_size
            /\ batch.data[f][k] =
                 buffer[f][batch.batch_ids[k] + 1][batch.env_ids[k] + 1]
  /\ (pc = "update" /\ i_step = 0) =>
       \A ts \in [1..args.batch_size -> 0..(args.steps_per_epoch - 1)] :
         \A es \in [1..args.batch_size -> 0..(args.num_envs - 1)] :
           ENABLED UpdateStepAt(ts, es)

\* a batch of two rows, both the last step of the last environment
C5_Witness ==
  /\ batch # NoBatch
  /\ args.batch_size >= 2 /\ args.steps_per_epoch >= 2 /\ args.num_envs >= 2
  /\ \A k \in 1..2 :
       /\ batch.batch_ids[k] = args.steps_per_epoch - 1
       /\ batch.env_ids[k] = args.num_envs - 1
       /\ batch.data.env_obs[k] = buffer.env_obs[args.steps_per_epoch][args.num_envs]
       /\ batch.data.ret[k] = buffer.ret[args.steps_per_epoch][args.num_envs]

\* C6: in every epoch the buffer is collected, advantages and returns
\* included, before the first inner step; exactly update_iters inner steps
\* follow; no later collection starts before they are over; train runs
\* exactly `epochs` such rounds and then ends.
C6_CollectThenUpdate ==
  /\ \A k \in 1..Len(collectLog) :
       /\ collectLog[k].epoch = k - 1
       /\ collectLog[k].updates = (k - 1) * args.update_iters
  /\ \A j \in 1..Len(updateLog) :
       /\ updateLog[j].epoch = (j - 1) \div args.update_iters
       /\ updateLog[j].step = (j - 1) % args.update_iters
       /\ updateLog[j].collects = updateLog[j].epoch + 1
  /\ pc = "update" =>
       /\ Len(collectLog) = t_epoch + 1
       /\ Len(updateLog) = t_epoch * args.update_iters + i_step
       /\ Len(buffer.adv) = args.steps_per_epoch
       /\ Len(buffer.ret) = args.steps_per_epoch
       /\ buffer.adv # rolled.adv
  /\ pc = "epoch" =>
       /\ Len(collectLog) = t_epoch
       /\ Len(updateLog) = t_epoch * args.update_iters
  /\ pc = "done" =>
       /\ Len(collectLog) = args.epochs
       /\ Len(updateLog) = args.epochs * args.update_iters
  /\ pc # "done" =>
       \/ /\ pc = "epoch" /\ range_continues(t_epoch, args.epochs)
          /\ TrainEnvs(args.steps_per_epoch, args.num_envs) # {}
       \/ ENABLED Return
       \/ ENABLED UpdateStep
       \/ ENABLED EpochEnd
  /\ t_epoch <= args.epochs /\ i_step <= args.update_iters

\* train has returned after several epochs of several inner steps
C6_Witness ==
  /\ pc = "done"
  /\ args.epochs >= 2 /\ args.update_iters >= 2
  /\ Len(collectLog) >= 2

\* C7: inner step i + 1 uses the actor and critic that inner step i made,
\* step 0 those passed in; an epoch collects and starts updating with those
\* the last inner step of the epoch before made, the first epoch with the
\* initial ones.
C7_ParametersThreaded ==
  /\ \A k \in 1..Len(collectLog) :
       /\ collectLog[k].actor =
            IF k = 1 THEN InitialAc.actor
            ELSE updateLog[(k - 1) * args.update_iters].made.actor
       /\ collectLog[k].critic =
            IF k = 1 THEN InitialAc.critic
            ELSE updateLog[(k - 1) * args.update_iters].made.critic
  /\ \A j \in 1..Len(updateLog) :
       /\ updateLog[j].used.actor =
            IF updateLog[j].step = 0
            THEN collectLog[updateLog[j].epoch + 1].actor
            ELSE updateLog[j - 1].made.actor
       /\ updateLog[j].used.critic =
            IF updateLog[j].step = 0
            THEN collectLog[updateLog[j].epoch + 1].critic
            ELSE updateLog[j - 1].made.critic
       /\ updateLog[j].made.actor = Model("actor", j)
       /\ updateLog[j].made.critic = Model("critic", j)
  /\ pc = "epoch" /\ t_epoch > 0 =>
       /\ ac.actor = updateLog[Len(updateLog)].made.actor
       /\ ac.critic = updateLog[Len(updateLog)].made.critic

\* the second inner step of the second epoch has run
C7_Witness ==
  /\ pc = "update"
  /\ t_epoch = 1 /\ i_step = 2
  /\ carry.actor = Model("actor", args.update_iters + 2)

\* train's rng_key, then train_rng_key, of epoch k
RECURSIVE EpochRngKey(_)
EpochRngKey(k) == IF k = 0 THEN RootKey ELSE Append(EpochRngKey(k - 1), 0)
EpochTrainKey(k) == Append(EpochRngKey(k), 1)
IsPrefix(x, y) == Len(x) <= Len(y) /\ SubSeq(y, 1, Len(x)) = x

\* a cell was produced in epoch k by the actor a
CellOf(log_p, action, env_obs, k, a) ==
  /\ log_p = <<"log_p", a, env_obs>>
  /\ action = <<"action", a, env_obs>>
  /\ IsPrefix(EpochTrainKey(k), env_obs[2])

\* C8: the buffer an epoch updates on was collected in that epoch with the
\* actor and critic as they were when its collection began, the same for
\* every step of the rollout, and a minibatch holds cells of that buffer
\* only.
C8_OnPolicy ==
  pc = "update" =>
    /\ collectLog[Len(collectLog)].epoch = t_epoch
    /\ collectLog[Len(collectLog)].actor = ac.actor
    /\ collectLog[Len(collectLog)].critic = ac.critic
    /\ \A k \in 1..Len(buffer.log_p) : \A e \in 1..args.num_envs :
         CellOf(buffer.log_p[k][e], buffer.action[k][e], buffer.env_obs[k][e],
                t_epoch, ac.actor)
    /\ batch # NoBatch =>
         \A k \in 1..args.batch_size :
           CellOf(batch.data.log_p[k], batch.data.action[k],
                  batch.data.env_obs[k], t_epoch, ac.actor)

\* a minibatch of the second epoch, whose actor is not the initial one
C8_Witness ==
  /\ pc = "update"
  /\ t_epoch = 1 /\ batch # NoBatch
  /\ ac.actor # InitialAc.actor
  /\ carry.actor # ac.actor

\* C9: with a clip_ratio that is not positive, train fails before the
\* environment is stepped, a buffer collected or a model updated.
C9_InvalidConfigRejected ==
  cfg.clip_ratio <= 0 =>
    /\ envCalls = 0
    /\ buffer = NoBuffer
    /\ updateLog = <<>>
    /\ ac = InitialAc

\* C10: the keys consumed by the random draws of a run (the seeding of each
\* environment of each epoch, the two index draws of each inner step) are
\* pairwise different, and none of them is ever split.
C10_KeysDistinct ==
  /\ \A j, k \in 1..Len(keysDrawn) :
       keysDrawn[j].key = keysDrawn[k].key => j = k
  /\ \A j \in 1..Len(keysDrawn) : keysDrawn[j].key \notin keysSplit
  /\ Len(keysDrawn) =
       Len(collectLog) * args.num_envs + 2 * Len(updateLog)

\* a run of several epochs of several inner steps on several environments
C10_Witness ==
  /\ pc = "done"
  /\ args.num_envs >= 2
  /\ Len(keysDrawn) >= 2 * 2 + 2 * 4
  /\ \E j, k \in 1..Len(keysDrawn) :
       /\ keysDrawn[j].use = "batch_ids" /\ keysDrawn[k].use = "env_ids"
       /\ Len(keysDrawn[j].key) # Len(keysDrawn[k].key)

\* C11: a second run of train with the same root key, configuration,
\* arguments and initial models, on an environment, loop, loss and optimizer
\* that are functions of their inputs, has after every step the same keys,
\* buffer, minibatch indices and minibatch, and the same actor and critic,
\* as the first.
C11_Deterministic ==
  /\ twin.rng_key = rng_key
  /\ twin.buffer = buffer
  /\ twin.batch = batch
  /\ twin.carry = carry
  /\ twin.ac = ac

\* both runs are over, after several epochs of several inner steps on
\* minibatches of several rows
C11_Witness ==
  /\ pc = "done"
  /\ args.epochs >= 2 /\ args.update_iters >= 2 /\ args.batch_size >= 2
  /\ args.num_envs >= 2
  /\ twin.ac.actor = Model("actor", args.epochs * args.update_iters)
  /\ ac.critic = Model("critic", args.epochs * args.update_iters)
  /\ twin.buffer # NoBuffer

\* the answers of a rollout with one reward, done or value of an environment
\* other than e changed
OtherEnvChanges(e_, e) ==
  LET N == Len(e_.value) - 1
      others == (1..NumCols(e_.value)) \ {e}
  IN  {[e_ EXCEPT !.reward[t][c] = One - @] : t \in 1..N, c \in others}
        \cup {[e_ EXCEPT !.done[t][c] = ~@] : t \in 1..N, c \in others}
        \cup {[e_ EXCEPT !.value[t][c] = One - @] :
                 t \in 1..(N + 1), c \in others}

\* the buffer collect_buffer returns on those answers: the rollout's buffer
\* holds them in reward, done and value, the fields collect_buffer computes
\* adv and ret from
BufferOn(e_) ==
  collect_buffer(cfg, [rolled EXCEPT !.reward = e_.reward, !.done = e_.done,
                                     !.value = e_.value])

\* adv[:, e] and ret[:, e] are those of the buffer collected
SameColumn(b, e) ==
  /\ Column(b.adv, e) = Column(buffer.adv, e)
  /\ Column(b.ret, e) = Column(buffer.ret, e)

IndependentOfOthers(e) ==
  \A p \in OtherEnvChanges(env, e) : SameColumn(BufferOn(p), e)

\* C12 as stated: adv[:, e] and ret[:, e] of the buffer of collect_buffer
\* are unchanged by a change of the rewards, dones or values of another
\* environment, whatever normalize_advantage is.
C12_IndependentAcrossEnvs ==
  Collected => \A e \in 1..args.num_envs : IndependentOfOthers(e)

\* C12, amended: without normalize_advantage, adv[:, e] and ret[:, e] of the
\* buffer of collect_buffer are unchanged by a change of the rewards, dones
\* or values of another environment.
C12_IndependentUnnormalized ==
  (Collected /\ ~cfg.normalize_advantage) =>
    \A e \in 1..args.num_envs : IndependentOfOthers(e)

\* no normalization, and a change in the second environment that changes
\* its own advantages and returns
C12_Witness ==
  /\ Collected /\ ~cfg.normalize_advantage
  /\ args.num_envs >= 2 /\ args.steps_per_epoch >= 2
  /\ \E p \in OtherEnvChanges(env, 1) :
       /\ ~SameColumn(BufferOn(p), 2)
       /\ SameColumn(BufferOn(p), 1)

\* C13: for a single environment with gamma = 1, lambda = 1 and no done,
\* advantages[t] = sum(rewards[t..N-1]) + values[N] - values[t] for every t.
C13_MonteCarlo ==
  (/\ Returned
   /\ NumCols(gaeArgs.rewards) = 1
   /\ gaeArgs.gamma = 1 /\ gaeArgs.gae_lambda = 1
   /\ \A t \in 1..Len(gaeArgs.dones) : ~gaeArgs.dones[t][1])
    => /\ Len(gaeRet) = Len(gaeArgs.rewards)
       /\ \A t \in 1..Len(gaeArgs.rewards) :
            gaeRet[t][1] =
              SumSeq(SubSeq(Column(gaeArgs.rewards, 1), t,
                            Len(gaeArgs.rewards)))
                + gaeArgs.values[Len(gaeArgs.rewards) + 1][1]
                - gaeArgs.values[t][1]

\* rewards = [1, 1, 1] and values = [0, 0, 0, 0] give advantages [3, 2, 1]
C13_Witness ==
  /\ Returned
  /\ gaeArgs.gamma = 1 /\ gaeArgs.gae_lambda = 1
  /\ gaeArgs.rewards = <<<<One>>, <<One>>, <<One>>>>
  /\ gaeArgs.dones = <<<<FALSE>>, <<FALSE>>, <<FALSE>>>>
  /\ gaeArgs.values = <<<<0>>, <<0>>, <<0>>, <<0>>>>
  /\ gaeRet = <<<<3 * One>>, <<2 * One>>, <<One>>>>

\* C14: the episode statistics of an epoch are means over the cells with
\* done of what the rollout recorded there: ep_rets of the callback's ep_ret,
\* ep_lens of its ep_len.
C14_EpisodeStatsFromRollout ==
  (pc \in {"epoch", "done"} /\ t_epoch > 0) =>
    /\ info.ep_lens =
         mean(Masked(Flat(AllButLast(rolled.ep_len)),
                     Flat(AllButLast(rolled.done))), 1)
    /\ info.ep_rets =
         mean(Masked(Flat(AllButLast(rolled.ret)),
                     Flat(AllButLast(rolled.done))), One)

====
